---- MODULE Spec2Model ----
(***************************************************************************)
(* A model of MarchIntoTheDark.py: the RoomType registry (class-level      *)
(* dictionaries), and the Dungeon constructor, which seeds 2 to 4 rooms    *)
(* around the entrance, grows the dungeon one room per accepted loop       *)
(* iteration, and then classifies the dead ends.                           *)
(*                                                                         *)
(* Python dictionaries keep insertion order; the ones whose order the code *)
(* reads (Dungeon.rooms, RoomType._listSpecial) are sequences of entries   *)
(* [key, val]; the others are functions on their key set.                  *)
(* Weights are floats in the source (1, 0.5); the model counts them in     *)
(* halves, so 1 is 2 and 0.5 is 1, and every sum is exact.                 *)
(***************************************************************************)
EXTENDS Integers, Sequences, FiniteSets, TLC

\* Largest target size given to Dungeon(size) in the generation model.
MaxSize == 5
\* Largest target size in the model that varies the weight functions.
MaxSizeW == 3
\* Largest number of RoomType objects created in the registry model.
MaxTypes == 3
\* Largest target size in the model of the game loop.
MaxSizeG == 3
\* Farthest, along an axis, that key events move the rooms in that model.
MaxShift == 1

VARIABLES
  objs,         \* the RoomType objects created so far; an object is its index
  listAll,      \* RoomType._listAll: name -> object
  listSpecial,  \* RoomType._listSpecial: ordered entries name -> object
  weights,      \* RoomType._weights: object -> weight function
  basicType,    \* RoomType.basicType (0: not set)
  rooms,        \* Dungeon.rooms: ordered entries (x, y) -> Room
  roomTypes,    \* Dungeon.roomTypes: object -> number of rooms given that type
  size,         \* the argument of Dungeon(size)
  baseRooms,    \* the local baseRooms of Dungeon.__init__
  i,            \* the local i of Dungeon.__init__
  deadEnds,     \* the local deadEnds: indexes into rooms, in list order
  pc,           \* where the program is
  err           \* the exception that ended it ("none": no exception)

vars == <<objs, listAll, listSpecial, weights, basicType, rooms, roomTypes,
          size, baseRooms, i, deadEnds, pc, err>>

registryVars == <<objs, listAll, listSpecial, weights, basicType>>
dungeonVars == <<rooms, roomTypes, size, baseRooms, i, deadEnds>>

(***************************************************************************)
(* Helpers: dictionaries and lists                                         *)
(***************************************************************************)
\* The weight callables: "one" and "half" are the lambdas of the main block;
\* the others are callables a caller may pass to addWeight.
WeightFns == {"one", "half", "zero", "neghalf", "unique"}

Min(S) == CHOOSE m \in S : \A n \in S : m <= n

Max(S) == CHOOSE m \in S : \A n \in S : m >= n

\* d[k] = v for a dictionary kept as a function.
Put(d, k, v) == [x \in (DOMAIN d) \cup {k} |-> IF x = k THEN v ELSE d[x]]

\* dict.get(k, default)
Get(d, k, default) == IF k \in DOMAIN d THEN d[k] ELSE default

\* The position of key k in an ordered dictionary, 0 when absent.
KeyIndex(d, k) ==
  IF \E j \in 1..Len(d) : d[j].key = k
  THEN CHOOSE j \in 1..Len(d) : d[j].key = k
  ELSE 0

HasKey(d, k) == KeyIndex(d, k) # 0

\* d[k] = v for an ordered dictionary: an existing key keeps its place.
DictSet(d, k, v) ==
  IF HasKey(d, k)
  THEN [d EXCEPT ![KeyIndex(d, k)] = [key |-> k, val |-> v]]
  ELSE Append(d, [key |-> k, val |-> v])

RECURSIVE Perms(_)
\* Every ordering of the set S, as sequences: the outcomes of shuffle.
Perms(S) ==
  IF S = {} THEN {<<>>}
  ELSE UNION {{<<x>> \o p : p \in Perms(S \ {x})} : x \in S}

\* The outcomes of shuffle(s) for a list s.
Shuffles(s) == {[j \in 1..Len(s) |-> s[p[j]]] : p \in Perms(1..Len(s))}

(***************************************************************************)
(* dirNumToVector                                                          *)
(***************************************************************************)
dirNumToVector(dirNum) ==
  CASE dirNum = 0 -> <<0, 1>>
    [] dirNum = 1 -> <<1, 0>>
    [] dirNum = 2 -> <<0, -1>>
    [] dirNum = 3 -> <<-1, 0>>

(***************************************************************************)
(* The RoomType registry                                                   *)
(***************************************************************************)
\* A registry value: the class-level state of RoomType.
EmptyRegistry ==
  [objs |-> <<>>, listAll |-> <<>>, listSpecial |-> <<>>, weights |-> <<>>]

\* RoomType(name, color, special): a new object, stored under its name.
Register(R, name, special) ==
  LET id == Len(R.objs) + 1 IN
  [objs |-> Append(R.objs, [name |-> name]),
   listAll |-> Put(R.listAll, name, id),
   listSpecial |-> IF special THEN DictSet(R.listSpecial, name, id)
                   ELSE R.listSpecial,
   weights |-> R.weights]

\* RoomType.getType(name) raises KeyError for a name that is not registered.
GetTypeFails(all, name) == name \notin DOMAIN all

getType(all, name) == all[name]

\* RoomType.addWeight(roomType, weight), when getType does not raise.
AddWeightTo(R, name, fn) ==
  [R EXCEPT !.weights = Put(R.weights, getType(R.listAll, name), fn)]

\* The registry the main block builds (its first two special types).
MainRegistry(fnGreenhouse, fnTreasury) ==
  LET r1 == Register(EmptyRegistry, "Entrance", FALSE)
      r2 == Register(r1, "Stairs", FALSE)
      r3 == Register(r2, "Basic", FALSE)
      r4 == AddWeightTo(Register(r3, "Greenhouse", TRUE), "Greenhouse", fnGreenhouse)
      r5 == AddWeightTo(Register(r4, "Treasury", TRUE), "Treasury", fnTreasury)
  IN r5

Registry == [objs |-> objs, listAll |-> listAll, listSpecial |-> listSpecial,
             weights |-> weights]

SetRegistry(R) ==
  /\ objs' = R.objs
  /\ listAll' = R.listAll
  /\ listSpecial' = R.listSpecial
  /\ weights' = R.weights

\* A call RoomType(name, color, special) from the caller.
RoomTypeInit(name, special) ==
  /\ pc = "registry"
  /\ Len(objs) < MaxTypes
  /\ SetRegistry(Register(Registry, name, special))
  /\ err' = "none"
  /\ UNCHANGED <<basicType, dungeonVars, pc>>

\* RoomType.basicType = <an object created before>
SetBasicType(t) ==
  /\ pc = "registry"
  /\ t \in 1..Len(objs)
  /\ basicType' = t
  /\ err' = "none"
  /\ UNCHANGED <<objs, listAll, listSpecial, weights, dungeonVars, pc>>

\* A call RoomType.addWeight(name, fn) from the caller.
addWeight(name, fn) ==
  /\ pc = "registry"
  /\ IF GetTypeFails(listAll, name)
     THEN /\ err' = "KeyError"
          /\ UNCHANGED <<objs, listAll, listSpecial, weights>>
     ELSE /\ err' = "none"
          /\ SetRegistry(AddWeightTo(Registry, name, fn))
  /\ UNCHANGED <<basicType, dungeonVars, pc>>

(***************************************************************************)
(* Room                                                                    *)
(***************************************************************************)
\* Room(type, pos): Room.__init__
NewRoom(type, pos) ==
  [type |-> type, x |-> pos[1], y |-> pos[2],
   neighborCount |-> 0, distanceFromEntrance |-> 0]

\* Room.basicRoom(x, y)
basicRoom(basic, x, y) == NewRoom(basic, <<x, y>>)

(***************************************************************************)
(* Dungeon.__init__: the seed step                                         *)
(***************************************************************************)
\* The outcomes of shuffle on [0, 1, 2, 3].
DirectionOrders == Perms(0..3)

\* randint(1, 4) in place of randint(2, 4).
SeedCountsWide == 1..4

\* The outcomes of randint(2, 4).
SeedCounts == 2..4

\* A seed room whose neighbor count is left at the 0 of Room.__init__.
SeedRoomUncounted(basic, v) ==
  [basicRoom(basic, v[1], v[2]) EXCEPT !.distanceFromEntrance = 1]

\* A seed room: a basic room with its neighbor count and distance set.
SeedRoom(basic, v) ==
  [basicRoom(basic, v[1], v[2]) EXCEPT !.neighborCount = 1,
                                       !.distanceFromEntrance = 1]

RECURSIVE PlaceSeeds(_, _, _, _)
\* The loop over directions[:baseRooms], from its n-th element on backwards.
PlaceSeeds(rs, basic, directions, n) ==
  IF n = 0 THEN rs
  ELSE LET v == dirNumToVector(directions[n]) IN
       DictSet(PlaceSeeds(rs, basic, directions, n - 1), v, SeedRoom(basic, v))

\* rooms[k].neighborCount = n
SetNeighborCount(rs, k, n) ==
  [rs EXCEPT ![KeyIndex(rs, k)].val.neighborCount = n]

\* The rooms after the seed step.
Seeded(basic, directions, n) ==
  LET entrance == <<[key |-> <<0, 0>>, val |-> basicRoom(basic, 0, 0)]>>
  IN SetNeighborCount(PlaceSeeds(entrance, basic, directions, n), <<0, 0>>, n)

\* i = baseRooms
InitialCount(n) == n

SeedStep ==
  /\ pc = "start"
  /\ \E directions \in DirectionOrders, n \in SeedCounts :
       /\ rooms' = Seeded(basicType, directions, n)
       /\ baseRooms' = n
       /\ i' = InitialCount(n)
  /\ roomTypes' = <<>>
  /\ pc' = "grow"
  /\ UNCHANGED <<registryVars, size, deadEnds, err>>

(***************************************************************************)
(* Dungeon.__init__: the growth loop                                       *)
(***************************************************************************)
\* The coordinates one step from room r in direction d.
Candidate(r, d) ==
  <<r.x + dirNumToVector(d)[1], r.y + dirNumToVector(d)[2]>>

\* The cell one step from cell c in direction d.
CellAt(c, d) == <<c[1] + dirNumToVector(d)[1], c[2] + dirNumToVector(d)[2]>>

RECURSIVE NeighborsUpTo(_, _, _)
NeighborsUpTo(rs, c, n) ==
  IF n = 0 THEN <<>>
  ELSE LET rest == NeighborsUpTo(rs, c, n - 1)
           k == CellAt(c, n - 1)
       IN IF HasKey(rs, k) THEN Append(rest, KeyIndex(rs, k)) ELSE rest

\* The list built with range(3) in place of range(4).
NeighborsThreeDirections(rs, c) == NeighborsUpTo(rs, c, 3)

\* The list neighbors: the rooms (as indexes) in the four cells around c.
Neighbors(rs, c) == NeighborsUpTo(rs, c, 4)

\* The test with "at least one neighbor" in place of "exactly one".
AcceptAnyNeighbor(rs, c) == Len(Neighbors(rs, c)) >= 1 /\ ~HasKey(rs, c)

\* The test with "len(neighbors) == 0" in place of "len(neighbors) == 1".
AcceptIsolated(rs, c) == Len(Neighbors(rs, c)) = 0 /\ ~HasKey(rs, c)

\* The test that accepts a candidate cell.
Accept(rs, c) == Len(Neighbors(rs, c)) = 1 /\ ~HasKey(rs, c)

\* The neighbors' least distance, the + 1 left out.
NewDistanceNoStep(rs, nb) ==
  Min({rs[nb[j]].val.distanceFromEntrance : j \in 1..Len(nb)})

\* min([r.distanceFromEntrance for r in neighbors]) + 1
NewDistance(rs, nb) ==
  Min({rs[nb[j]].val.distanceFromEntrance : j \in 1..Len(nb)}) + 1

\* The neighbor left as it is.
IncNeighborSkip(r) == r

\* room.neighborCount += 1
IncNeighbor(r) == [r EXCEPT !.neighborCount = @ + 1]

RECURSIVE IncNeighbors(_, _, _)
\* The loop "for room in neighbors", over the first n of them.
IncNeighbors(rs, nb, n) ==
  IF n = 0 THEN rs
  ELSE LET prev == IncNeighbors(rs, nb, n - 1) IN
       [prev EXCEPT ![nb[n]].val = IncNeighbor(@)]

\* The body of the if: the rooms after the room at cell c is added.
AddRoom(rs, basic, c) ==
  LET nb == Neighbors(rs, c)
      newRoom == [basicRoom(basic, c[1], c[2]) EXCEPT
                    !.neighborCount = 1,
                    !.distanceFromEntrance = NewDistance(rs, nb)]
  IN IncNeighbors(DictSet(rs, c, newRoom), nb, Len(nb))

RECURSIVE FirstAccepted(_, _, _, _)
\* The first direction of directionList, from position n on, whose candidate
\* is accepted; -1 when the for loop ends without a break.
FirstAccepted(rs, r, directionList, n) ==
  IF n > Len(directionList) THEN -1
  ELSE IF Accept(rs, Candidate(r, directionList[n])) THEN directionList[n]
  ELSE FirstAccepted(rs, r, directionList, n + 1)

\* The test with <= in place of <.
NotFullInclusive(n, sz) == n <= sz

\* The test of the while loop.
NotFull(n, sz) == n < sz

\* The draw from list(self.rooms.values()), the [1:] left out.
BaseChoicesAll(rs) == 1..Len(rs)

\* The rooms (as indexes) choice draws from: list(self.rooms.values())[1:]
BaseChoices(rs) == 2..Len(rs)

\* The loop body with "i += 1" after the for loop instead of inside the if.
GrowthOutcomeAlwaysCounts(rs, n, basic, base, directionList) ==
  LET baseRoom == rs[base].val
      After(d) ==
        IF d = -1
        THEN [rooms |-> rs, i |-> n + 1]
        ELSE [rooms |-> AddRoom(rs, basic, Candidate(baseRoom, d)),
              i |-> n + 1]
  IN CHOOSE o \in {After(d) :
                     d \in {FirstAccepted(rs, baseRoom, directionList, 1)}} :
       TRUE

\* The rooms mapping and the counter i after the body of the while loop has
\* run with the room at index base and the shuffled directionList.
GrowthOutcome(rs, n, basic, base, directionList) ==
  LET baseRoom == rs[base].val
      After(d) ==
        IF d = -1
        THEN [rooms |-> rs, i |-> n]
        ELSE [rooms |-> AddRoom(rs, basic, Candidate(baseRoom, d)),
              i |-> n + 1]
  IN CHOOSE o \in {After(d) :
                     d \in {FirstAccepted(rs, baseRoom, directionList, 1)}} :
       TRUE

\* One iteration of the while loop.
GrowthStep ==
  /\ pc = "grow"
  /\ NotFull(i, size)
  /\ \E base \in BaseChoices(rooms), directionList \in DirectionOrders :
       \E o \in {GrowthOutcome(rooms, i, basicType, base, directionList)} :
         /\ rooms' = o.rooms
         /\ i' = o.i
  /\ UNCHANGED <<registryVars, roomTypes, size, baseRooms, deadEnds, pc, err>>

(***************************************************************************)
(* RoomType.getRandomType and random.choices                               *)
(***************************************************************************)
\* The value, in halves, of the weight callable fn called as
\* fn(t, distance, numberOcc, size).
EvalWeight(fn, t, distance, numberOcc, sz) ==
  CASE fn = "one" -> 2
    [] fn = "half" -> 1
    [] fn = "zero" -> 0
    [] fn = "neghalf" -> -1
    [] fn = "unique" -> IF Get(numberOcc, t, 0) = 0 THEN 2 ELSE 0

RECURSIVE SumTo(_, _)
SumTo(ws, n) == IF n = 0 THEN 0 ELSE SumTo(ws, n - 1) + ws[n]

\* list(accumulate(weights))
Accumulate(ws) == [j \in 1..Len(ws) |-> SumTo(ws, j)]

RECURSIVE bisect(_, _, _, _)
\* bisect.bisect_right(a, x, lo, hi), on a list indexed from 0
bisect(a, x, lo, hi) ==
  IF lo < hi
  THEN LET mid == (lo + hi) \div 2 IN
       IF x < a[mid + 1] THEN bisect(a, x, lo, mid)
       ELSE bisect(a, x, mid + 1, hi)
  ELSE lo

\* The values floor(random() * total) can take, random() being in [0, 1).
Draws(total) ==
  IF total > 0 THEN 0..(total - 1)
  ELSE IF total = 0 THEN {0}
  ELSE total..0

\* choices raises ValueError('Total of weights must be greater than zero').
TotalRejected(total) == total <= 0

\* The outcomes of choices(population, ws, k=1)[0]: a member of population,
\* or the exception raised. Comparing an integer cumulative weight with
\* random() * total comes out as comparing it with the floor.
choices(population, ws) ==
  IF Len(ws) = 0 THEN {[err |-> "IndexError", val |-> 0]}
  ELSE LET cum_weights == Accumulate(ws)
           total == cum_weights[Len(ws)]
           hi == Len(population) - 1
       IN IF TotalRejected(total) THEN {[err |-> "ValueError", val |-> 0]}
          ELSE {[err |-> "none",
                 val |-> population[bisect(cum_weights, x, 0, hi) + 1]] :
                  x \in Draws(total)}

\* list(weights.keys()): the special types, in the order of _listSpecial.
SpecialTypes(special) == [j \in 1..Len(special) |-> special[j].val]

\* list(weights.values()): the weights of getRandomType's dictionary.
WeightList(special, wts, distance, numberOcc, sz) ==
  [j \in 1..Len(special) |->
     EvalWeight(wts[special[j].val], special[j].val, distance, numberOcc, sz)]

\* getRandomType with the weights left out of the draw.
getRandomTypeUnweighted(special, wts, distance, numberOcc, sz) ==
  {[err |-> "none", val |-> special[j].val] : j \in 1..Len(special)}

\* getRandomType falling back on the first special type when choices raises.
getRandomTypeDefaulting(special, wts, distance, numberOcc, sz) ==
  LET ws == WeightList(special, wts, distance, numberOcc, sz)
      picks == choices(SpecialTypes(special), ws)
  IN {IF o.err = "none" THEN o ELSE [err |-> "none", val |-> special[1].val] :
        o \in picks}

\* The outcomes of RoomType.getRandomType(distance, numberOcc, size).
getRandomType(special, wts, distance, numberOcc, sz) ==
  IF \E j \in 1..Len(special) : special[j].val \notin DOMAIN wts
  THEN {[err |-> "KeyError", val |-> 0]}
  ELSE choices(SpecialTypes(special),
               WeightList(special, wts, distance, numberOcc, sz))

(***************************************************************************)
(* Dungeon.__init__: entrance, stairs and special rooms                    *)
(***************************************************************************)
\* The test with >= 1 in place of == 1.
IsDeadEndLoose(r) == r.neighborCount >= 1

\* The test of the list comprehension that collects the dead ends.
IsDeadEnd(r) == r.neighborCount = 1

\* [r for r in self.rooms.values() if r.neighborCount == 1], as indexes
DeadEndsOf(rs) ==
  SelectSeq([j \in 1..Len(rs) |-> j], LAMBDA j : IsDeadEnd(rs[j].val))

RECURSIVE SortUpTo(_, _, _)
\* The rooms of list de whose distance is at most d, ordered by distance and,
\* at equal distance, as in de: what the stable list.sort leaves.
SortUpTo(rs, de, d) ==
  IF d < 0 THEN <<>>
  ELSE SortUpTo(rs, de, d - 1) \o
       SelectSeq(de, LAMBDA j : rs[j].val.distanceFromEntrance = d)

\* A sort that puts rooms of equal distance in reverse order of creation.
SortByDistanceUnstable(rs, de) ==
  IF de = <<>> THEN <<>>
  ELSE SortUpTo(rs, [j \in 1..Len(de) |-> de[Len(de) + 1 - j]],
                Max({rs[de[j]].val.distanceFromEntrance : j \in 1..Len(de)}))

\* The list left as the comprehension built it, without the sort.
SortByDistanceSkipped(rs, de) == de

\* deadEnds.sort(key = lambda r: r.distanceFromEntrance)
SortByDistance(rs, de) ==
  IF de = <<>> THEN <<>>
  ELSE SortUpTo(rs, de,
                Max({rs[de[j]].val.distanceFromEntrance : j \in 1..Len(de)}))

\* The position of deadEnds[0].
StairsFirst(de) == 1

\* The position of deadEnds[-1].
StairsPosition(de) == Len(de)

\* The list with "del deadEnds[k]" left out.
DeleteNothing(de, k) == de

\* del deadEnds[k]
Delete(de, k) == SubSeq(de, 1, k - 1) \o SubSeq(de, k + 1, Len(de))

\* rooms[j].type = t
SetType(rs, j, t) == [rs EXCEPT ![j].val.type = t]

\* The end of the while loop, and the code down to shuffle(deadEnds).
AssignStart ==
  /\ pc = "grow"
  /\ ~NotFull(i, size)
  /\ IF GetTypeFails(listAll, "Entrance")
     THEN /\ pc' = "error"
          /\ err' = "KeyError"
          /\ UNCHANGED <<rooms, deadEnds>>
     ELSE \E rs1 \in {SetType(rooms, KeyIndex(rooms, <<0, 0>>),
                                getType(listAll, "Entrance"))} :
          \E de \in {DeadEndsOf(rs1)} :
          \E sorted \in {SortByDistance(rs1, de)} :
             IF GetTypeFails(listAll, "Stairs")
             THEN /\ pc' = "error"
                  /\ err' = "KeyError"
                  /\ rooms' = rs1
                  /\ deadEnds' = sorted
             ELSE IF sorted = <<>>
             THEN /\ pc' = "error"
                  /\ err' = "IndexError"
                  /\ rooms' = rs1
                  /\ deadEnds' = sorted
             ELSE /\ pc' = "assign"
                  /\ err' = "none"
                  /\ rooms' = SetType(rs1, sorted[StairsPosition(sorted)],
                                      getType(listAll, "Stairs"))
                  /\ deadEnds' \in
                       Shuffles(Delete(sorted, Len(sorted)))
  /\ UNCHANGED <<registryVars, roomTypes, size, baseRooms, i>>

\* One iteration of "for room in deadEnds".
AssignStep ==
  /\ pc = "assign"
  /\ deadEnds # <<>>
  /\ LET room == Head(deadEnds) IN
     \E o \in getRandomType(listSpecial, weights,
                            rooms[room].val.distanceFromEntrance,
                            roomTypes, size) :
       IF o.err # "none"
       THEN /\ pc' = "error"
            /\ err' = o.err
            /\ UNCHANGED <<rooms, roomTypes, deadEnds>>
       ELSE /\ rooms' = SetType(rooms, room, o.val)
            /\ roomTypes' = Put(roomTypes, o.val, Get(roomTypes, o.val, 0) + 1)
            /\ deadEnds' = Tail(deadEnds)
            /\ UNCHANGED <<pc, err>>
  /\ UNCHANGED <<registryVars, size, baseRooms, i>>

\* The loop is over: Dungeon.activeDungeon = self, and the constructor returns.
Finish ==
  /\ pc = "assign"
  /\ deadEnds = <<>>
  /\ pc' = "done"
  /\ UNCHANGED <<registryVars, dungeonVars, err>>

(***************************************************************************)
(* Specifications                                                          *)
(***************************************************************************)
\* The values before Dungeon(size) is called.
NoDungeon ==
  /\ rooms = <<>>
  /\ roomTypes = <<>>
  /\ baseRooms = 0
  /\ i = 0
  /\ deadEnds = <<>>
  /\ err = "none"

\* The registry as the main block leaves it, and a call Dungeon(size).
InitWith(R, sizes) ==
  /\ objs = R.objs
  /\ listAll = R.listAll
  /\ listSpecial = R.listSpecial
  /\ weights = R.weights
  /\ basicType = getType(R.listAll, "Basic")
  /\ size \in sizes
  /\ pc = "start"
  /\ NoDungeon

Init == InitWith(MainRegistry("one", "half"), 0..MaxSize)

Next == SeedStep \/ GrowthStep \/ AssignStart \/ AssignStep \/ Finish

\* Generation with the main block's registry.
Spec == Init /\ [][Next]_vars

InitWeights ==
  \E f \in WeightFns, g \in WeightFns :
    InitWith(MainRegistry(f, g), 0..MaxSizeW)

\* Generation with any of the weight callables attached to the special types.
SpecWeights == InitWeights /\ [][Next]_vars

InitRegistry ==
  /\ objs = <<>>
  /\ listAll = <<>>
  /\ listSpecial = <<>>
  /\ weights = <<>>
  /\ basicType = 0
  /\ size = 0
  /\ pc = "registry"
  /\ NoDungeon

\* The names and callables the registry model's calls draw from.
RegistryNames == {"Basic", "Greenhouse", "Treasury"}

RegistryFns == {"one", "half"}

NextRegistry ==
  \/ \E name \in RegistryNames, special \in BOOLEAN :
       RoomTypeInit(name, special)
  \/ \E t \in 1..MaxTypes : SetBasicType(t)
  \/ \E name \in RegistryNames, fn \in RegistryFns : addWeight(name, fn)

\* The registry alone, under any calls of its operations.
SpecRegistry == InitRegistry /\ [][NextRegistry]_vars

(***************************************************************************)
(* The grid the rooms mapping describes                                    *)
(***************************************************************************)
\* The occupied cells: the keys of the rooms mapping.
Cells(rs) == {rs[j].key : j \in 1..Len(rs)}

Abs(n) == IF n < 0 THEN -n ELSE n

\* 4-directional adjacency of two cells.
Adjacent(a, b) == Abs(a[1] - b[1]) + Abs(a[2] - b[2]) = 1

\* The adjacent occupied pairs, each counted in both orders.
AdjacentPairs(rs) ==
  {p \in Cells(rs) \X Cells(rs) : Adjacent(p[1], p[2])}

\* The occupied cells one hop or less from a cell of S.
Expand(rs, S) == S \cup {c \in Cells(rs) : \E a \in S : Adjacent(a, c)}

RECURSIVE ReachableFrom(_, _)
\* The occupied cells joined to S through adjacent occupied cells.
ReachableFrom(rs, S) ==
  IF Expand(rs, S) = S THEN S ELSE ReachableFrom(rs, Expand(rs, S))

RECURSIVE HopsFrom(_, _, _, _)
\* The least number of hops from S to cell c, k hops being spent already;
\* -1 when c cannot be reached.
HopsFrom(rs, S, c, k) ==
  IF c \in S THEN k
  ELSE IF Expand(rs, S) = S THEN -1
  ELSE HopsFrom(rs, Expand(rs, S), c, k + 1)

\* The least number of hops from the entrance cell to cell c.
Hops(rs, c) == HopsFrom(rs, {<<0, 0>>} \cap Cells(rs), c, 0)

\* The number of occupied cells among the four around cell c.
OccupiedAround(rs, c) == Cardinality({d \in 0..3 : CellAt(c, d) \in Cells(rs)})

\* The objects the names of the main block stand for.
TypeNamed(j) == objs[rooms[j].val.type].name

\* The rooms (as indexes) whose cached neighbor count is 1.
DeadEndRooms == {j \in 1..Len(rooms) : rooms[j].val.neighborCount = 1}

\* The objects registered as special.
SpecialObjects == {listSpecial[j].val : j \in 1..Len(listSpecial)}

(***************************************************************************)
(* Properties                                                              *)
(***************************************************************************)
\* C1: when Dungeon(size) has completed, the occupied cells form one tree
\* under 4-adjacency: every room is reachable from (0,0) through adjacent
\* occupied cells and the number of adjacent occupied pairs is the number of
\* rooms minus one (so there is no cycle).
C1_RoomsFormTree ==
  pc = "done" =>
    /\ Cardinality(Cells(rooms)) = Len(rooms)
    /\ ReachableFrom(rooms, {<<0, 0>>}) = Cells(rooms)
    /\ Cardinality(AdjacentPairs(rooms)) = 2 * (Len(rooms) - 1)

\* A completed dungeon that grew beyond its seed rooms and has a branching room.
C1_Witness ==
  /\ pc = "done"
  /\ Len(rooms) > 1 + baseRooms
  /\ \E j \in 2..Len(rooms) : rooms[j].val.neighborCount >= 3

\* C2 as stated: for size >= 5 the completed dungeon holds size rooms plus
\* the seed rooms.
C2_CountIsSizePlusSeeds ==
  (pc = "done" /\ size >= 5) => Len(rooms) = size + baseRooms

\* C2 amended: for size >= 5 the completed dungeon holds size + 1 rooms, the
\* entrance and size others, the seed rooms being among the size.
C2_CountIsSizePlusOne ==
  (pc = "done" /\ size >= 5) =>
    /\ Len(rooms) = size + 1
    /\ Cardinality(Cells(rooms)) = size + 1
    /\ i = size

\* A completed dungeon of target size 5 or more.
C2_Witness == pc = "done" /\ size >= 5 /\ baseRooms \in 2..4

\* C3: when Dungeon(size) has completed, exactly one room has type Stairs,
\* and its distanceFromEntrance is the largest among the rooms with
\* neighborCount 1 (the counts do not change once the assignment pass starts).
C3_OneStairsFurthestDeadEnd ==
  pc = "done" =>
    /\ Cardinality({j \in 1..Len(rooms) : TypeNamed(j) = "Stairs"}) = 1
    /\ \A j \in 1..Len(rooms) :
         TypeNamed(j) = "Stairs" =>
           /\ j \in DeadEndRooms
           /\ \A k \in DeadEndRooms :
                rooms[k].val.distanceFromEntrance
                  <= rooms[j].val.distanceFromEntrance

\* A completed dungeon whose dead ends lie at different distances.
C3_Witness ==
  /\ pc = "done"
  /\ \E j \in DeadEndRooms, k \in DeadEndRooms :
       rooms[j].val.distanceFromEntrance < rooms[k].val.distanceFromEntrance

\* C4: at the end of generation every room's neighborCount is the number of
\* occupied cells among the four cells around it, the entrance included.
C4_NeighborCountIsDegree ==
  pc = "done" =>
    \A j \in 1..Len(rooms) :
      rooms[j].val.neighborCount = OccupiedAround(rooms, rooms[j].key)

\* A completed dungeon in which growth raised a room's count past 1.
C4_Witness ==
  /\ pc = "done"
  /\ \E j \in 2..Len(rooms) : rooms[j].val.neighborCount >= 2

\* C5: from the moment the entrance is typed, through stairs selection and
\* every special-room assignment to the end, the room at (0,0) has type
\* Entrance and no other room has it.
C5_EntranceAtOrigin ==
  pc \in {"assign", "done"} =>
    \A j \in 1..Len(rooms) :
      (TypeNamed(j) = "Entrance") <=> (rooms[j].key = <<0, 0>>)

\* A completed dungeon in which a dead end was given a special type.
C5_Witness ==
  /\ pc = "done"
  /\ \E j \in 1..Len(rooms) : rooms[j].val.type \in SpecialObjects

\* The weight, at this moment, of special type t for the room with index j.
WeightNow(t, j) ==
  EvalWeight(weights[t], t, rooms[j].val.distanceFromEntrance, roomTypes, size)

\* C6: every type the special-room loop writes into a room is a special type
\* whose weight, evaluated with that room's distance, the occurrence counts
\* of that moment and size, is strictly positive; and when generation ends
\* every dead end other than the exit carries a special type.
C6_AssignedWeightPositive ==
  /\ [][\A j \in 1..Len(rooms) :
          (pc = "assign" /\ rooms'[j].val.type # rooms[j].val.type) =>
            /\ rooms'[j].val.type \in SpecialObjects
            /\ WeightNow(rooms'[j].val.type, j) > 0]_vars
  /\ [](pc = "done" =>
          \A j \in DeadEndRooms :
            TypeNamed(j) # "Stairs" => rooms[j].val.type \in SpecialObjects)

\* A completed dungeon in which a dead end was typed although one of the
\* special types had a zero or negative weight throughout.
C6_Witness ==
  /\ pc = "done"
  /\ \E t \in SpecialObjects : weights[t] \in {"zero", "neghalf"}
  /\ \E j \in DeadEndRooms : rooms[j].val.type \in SpecialObjects

\* Every special type's weight is 0 for the dead end about to be processed.
AllWeightsZero ==
  /\ pc = "assign"
  /\ deadEnds # <<>>
  /\ \A t \in SpecialObjects : WeightNow(t, Head(deadEnds)) = 0

\* C8: when every special type's weight is 0 for the dead end being
\* processed, the pick ends in an exception: the room's type is not written
\* and no occurrence count is incremented.
C8_AllZeroWeightsRaise ==
  [][AllWeightsZero =>
       /\ pc' = "error"
       /\ err' # "none"
       /\ rooms' = rooms
       /\ roomTypes' = roomTypes]_vars

\* Generation ended by the exception of a pick whose weights were all 0, the
\* dead end in question still untyped.
C8_Witness ==
  /\ pc = "error"
  /\ err = "ValueError"
  /\ deadEnds # <<>>
  /\ \A t \in SpecialObjects : WeightNow(t, Head(deadEnds)) = 0
  /\ TypeNamed(Head(deadEnds)) = "Basic"

\* The four cells around the entrance.
CardinalCells == {dirNumToVector(d) : d \in 0..3}

\* C9: for size = 0 the growth loop's test fails the first time, and the
\* completed dungeon is the entrance at (0,0) and its 2 to 4 seed rooms, each
\* in a cell of its own next to (0,0).
C9_SizeZeroOnlySeeds ==
  size = 0 =>
    /\ pc = "grow" => ~NotFull(i, size)
    /\ pc = "done" =>
         /\ baseRooms \in 2..4
         /\ Len(rooms) = 1 + baseRooms
         /\ rooms[1].key = <<0, 0>>
         /\ Cardinality(Cells(rooms)) = 1 + baseRooms
         /\ Cells(rooms) \ {<<0, 0>>} \subseteq CardinalCells

\* A completed dungeon of target size 0.
C9_Witness == pc = "done" /\ size = 0 /\ Len(rooms) >= 3

\* C10: at the end of generation every room's distanceFromEntrance is the
\* least number of hops from (0,0) to it through occupied cells, and no step
\* changes the distance of a room that exists.
C10_DistanceIsHops ==
  /\ [](pc = "done" =>
          \A j \in 1..Len(rooms) :
            rooms[j].val.distanceFromEntrance = Hops(rooms, rooms[j].key))
  /\ [][\A j \in 1..Len(rooms) :
          /\ j <= Len(rooms')
          /\ rooms'[j].val.distanceFromEntrance
               = rooms[j].val.distanceFromEntrance]_vars

\* A completed dungeon with a room three or more hops from the entrance.
C10_Witness ==
  /\ pc = "done"
  /\ \E j \in 1..Len(rooms) : rooms[j].val.distanceFromEntrance >= 3

\* C7: a name that is registered keeps the type registered for it: no call
\* replaces it.
C7_RegisteredTypeKept ==
  [][\A name \in DOMAIN listAll :
       name \in DOMAIN listAll' /\ listAll'[name] = listAll[name]]_vars

(***************************************************************************)
(* Instance: the game loop that follows Dungeon(size)                      *)
(*                                                                         *)
(* pc = "done": the constructor has returned and _running is True;         *)
(* pc = "stopping": _running is False, the events of the same batch and    *)
(* the last on_render still run; pc = "exited": on_cleanup has run.        *)
(* Room.listAll holds the rooms of the dungeon, in the order of rooms.     *)
(***************************************************************************)
\* event.type / event.key, as far as on_event tells them apart.
Events == {"QUIT", "K_ESCAPE", "K_UP", "K_DOWN", "K_LEFT", "K_RIGHT", "other"}

\* What on_event adds to the x and y of every room for event e.
EventShift(e) ==
  CASE e = "K_UP" -> <<0, 1>>
    [] e = "K_DOWN" -> <<0, -1>>
    [] e = "K_LEFT" -> <<1, 0>>
    [] e = "K_RIGHT" -> <<-1, 0>>
    [] OTHER -> <<0, 0>>

\* room.x += dx; room.y += dy
ShiftRoom(r, dx, dy) == [r EXCEPT !.x = @ + dx, !.y = @ + dy]

\* The loop run for the first room of Room.listAll alone.
ShiftRoomsFirstOnly(rs, dx, dy) ==
  [j \in 1..Len(rs) |->
     IF j = 1 THEN [rs[j] EXCEPT !.val = ShiftRoom(@, dx, dy)] ELSE rs[j]]

\* for room in Room.listAll: room.x += dx (or room.y += dy)
ShiftRooms(rs, dx, dy) ==
  [j \in 1..Len(rs) |-> [rs[j] EXCEPT !.val = ShiftRoom(@, dx, dy)]]

\* Instance.on_event(event)
on_event(e) ==
  /\ pc \in {"done", "stopping"}
  /\ Abs(rooms[1].val.x + EventShift(e)[1]) <= MaxShift
  /\ Abs(rooms[1].val.y + EventShift(e)[2]) <= MaxShift
  /\ rooms' = ShiftRooms(rooms, EventShift(e)[1], EventShift(e)[2])
  /\ pc' = IF e \in {"QUIT", "K_ESCAPE"} THEN "stopping" ELSE pc
  /\ UNCHANGED <<registryVars, roomTypes, size, baseRooms, i, deadEnds, err>>

\* Instance.on_render(), Dungeon.render and Room.render: they only read.
on_render ==
  /\ pc \in {"done", "stopping"}
  /\ UNCHANGED vars

\* The while loop of on_execute ends; Instance.on_cleanup()
on_cleanup ==
  /\ pc = "stopping"
  /\ pc' = "exited"
  /\ UNCHANGED <<registryVars, dungeonVars, err>>

InitGame == InitWith(MainRegistry("one", "half"), 0..MaxSizeG)

NextGame ==
  \/ Next
  \/ \E e \in Events : on_event(e)
  \/ on_render
  \/ on_cleanup

\* Generation followed by the game loop.
SpecGame == InitGame /\ [][NextGame]_vars

\* The constructor has returned.
Returned == pc \in {"done", "stopping", "exited"}

C12_WeightsOnlyForSpecialTypes ==
  [][\A t \in DOMAIN weights' :
       (t \notin DOMAIN weights \/ weights'[t] # weights[t]) =>
         t \in SpecialObjects]_vars

NextGrowth == SeedStep \/ GrowthStep

\* The seed step and the growth loop of Dungeon(size), without what follows.
SpecGrowth == Init /\ [][NextGrowth]_vars

\* The loop is at its test and the test lets the body run.
Growing == pc = "grow" /\ NotFull(i, size)

\* The rooms of rs (as indexes) in the cells next to cell c.
RoomsAround(rs, c) == {j \in 1..Len(rs) : Adjacent(rs[j].key, c)}

\* C13: whatever base room and direction order a growth step draws, if it
\* adds a room then the new cell was unoccupied, its only occupied neighbour
\* is the base room, the base room is not the entrance, and the step changes
\* no neighborCount but the base room's, which it raises by one.
C13_NewRoomHangsOffBaseRoom ==
  Growing =>
    \A base \in BaseChoices(rooms), directionList \in DirectionOrders :
      \A o \in {GrowthOutcome(rooms, i, basicType, base, directionList)} :
        Len(o.rooms) # Len(rooms) =>
          /\ Len(o.rooms) = Len(rooms) + 1
          /\ o.rooms[Len(o.rooms)].key \notin Cells(rooms)
          /\ RoomsAround(rooms, o.rooms[Len(o.rooms)].key) = {base}
          /\ rooms[base].key # <<0, 0>>
          /\ o.rooms[Len(o.rooms)].val.neighborCount = 1
          /\ \A j \in 1..Len(rooms) :
               o.rooms[j].val.neighborCount =
                 rooms[j].val.neighborCount + (IF j = base THEN 1 ELSE 0)

\* Growth has added a room and the loop is about to add another.
C13_Witness ==
  /\ Growing
  /\ Len(rooms) > 1 + baseRooms
  /\ \E base \in BaseChoices(rooms), d \in 0..3 :
       Accept(rooms, Candidate(rooms[base].val, d))

\* No direction from the room at index base gives an accepted candidate.
Blocked(rs, base) ==
  \A d \in 0..3 : ~Accept(rs, Candidate(rs[base].val, d))

\* C14: a growth step whose base room has no accepted candidate in any of
\* the four directions leaves the rooms mapping (so every neighborCount and
\* distanceFromEntrance) and the counter i as they were; the loop stays at
\* its test.
C14_RejectedStepChangesNothing ==
  Growing =>
    \A base \in BaseChoices(rooms) :
      Blocked(rooms, base) =>
        \A directionList \in DirectionOrders :
          GrowthOutcome(rooms, i, basicType, base, directionList)
            = [rooms |-> rooms, i |-> i]

\* The loop is running and one of the rooms it may draw is blocked.
C14_Witness ==
  /\ Growing
  /\ \E base \in BaseChoices(rooms) : Blocked(rooms, base)

\* The occupied cells among the four around the entrance cell.
AroundEntrance(rs) == CardinalCells \cap Cells(rs)

\* C20: once the seed step has run, no step changes the set of occupied
\* cells next to (0,0) or the entrance's neighborCount: growth never puts a
\* room next to the entrance, and a direction the seed step left out stays
\* empty.
C20_EntranceNeighborsFixed ==
  /\ [](rooms # <<>> =>
          /\ Cardinality(AroundEntrance(rooms)) = baseRooms
          /\ rooms[1].val.neighborCount = baseRooms)
  /\ [][rooms # <<>> =>
          /\ AroundEntrance(rooms') = AroundEntrance(rooms)
          /\ rooms'[1].val.neighborCount = rooms[1].val.neighborCount]_vars

\* Growth has added rooms although a cell next to the entrance is empty and
\* has a room of its own next to it.
C20_Witness ==
  /\ pc = "done"
  /\ \E c \in CardinalCells \ Cells(rooms) : RoomsAround(rooms, c) # {1}

\* The dead ends whose distance is the largest of any dead end.
FurthestDeadEnds ==
  {j \in DeadEndRooms :
     \A k \in DeadEndRooms :
       rooms[k].val.distanceFromEntrance <= rooms[j].val.distanceFromEntrance}

\* The rooms still waiting in the list deadEnds.
Pending == {deadEnds[k] : k \in 1..Len(deadEnds)}

\* C15: among the dead ends that share the largest distance, the one created
\* last (the highest position in rooms) is the Stairs room; each of the
\* others is still in the list deadEnds until it has been given a special
\* type, and all of them have special types when generation ends.
C15_StairsIsLastCreatedOfTied ==
  pc \in {"assign", "done"} =>
    \A j \in FurthestDeadEnds :
      IF j = Max(FurthestDeadEnds)
      THEN TypeNamed(j) = "Stairs" /\ j \notin Pending
      ELSE /\ TypeNamed(j) # "Stairs"
           /\ j \in Pending \/ rooms[j].val.type \in SpecialObjects
           /\ pc = "done" => rooms[j].val.type \in SpecialObjects

\* A completed dungeon in which two grown dead ends share the largest
\* distance.
C15_Witness ==
  /\ pc = "done"
  /\ Cardinality(FurthestDeadEnds) >= 2
  /\ \A j \in FurthestDeadEnds : rooms[j].val.distanceFromEntrance >= 2

\* C16: a room's type changes only from the basic type to another type, and
\* a room waiting in deadEnds has not been written yet and is listed once, so
\* no room is written twice; at the end the entrance is Entrance, one dead
\* end is Stairs, every other room with neighborCount 1 has a special type
\* and every other room with neighborCount >= 2 has the basic type.
C16_TypeWrittenOnce ==
  /\ [][\A j \in 1..Len(rooms) :
          rooms'[j].val.type # rooms[j].val.type =>
            /\ rooms[j].val.type = basicType
            /\ rooms'[j].val.type # basicType]_vars
  /\ [](pc = "assign" =>
          /\ Cardinality(Pending) = Len(deadEnds)
          /\ \A j \in Pending : rooms[j].val.type = basicType)
  /\ [](pc = "done" =>
          /\ TypeNamed(1) = "Entrance" /\ rooms[1].key = <<0, 0>>
          /\ Cardinality({j \in DeadEndRooms : TypeNamed(j) = "Stairs"}) = 1
          /\ \A j \in DeadEndRooms :
               TypeNamed(j) = "Stairs" \/ rooms[j].val.type \in SpecialObjects
          /\ \A j \in 2..Len(rooms) :
               rooms[j].val.neighborCount # 1 =>
                 /\ rooms[j].val.neighborCount >= 2
                 /\ rooms[j].val.type = basicType)

\* A completed dungeon with rooms of all four kinds.
C16_Witness ==
  /\ pc = "done"
  /\ \E j \in 2..Len(rooms) : rooms[j].val.neighborCount >= 2
  /\ \E j, k \in DeadEndRooms :
       j # k /\ rooms[j].val.type \in SpecialObjects
             /\ rooms[k].val.type \in SpecialObjects

\* C18: when the while loop is over, the list of rooms with neighborCount 1
\* is not empty and the entrance is not in it; deadEnds[-1] never raises
\* IndexError and the entrance keeps the type Entrance.
C18_DeadEndsNonEmptyWithoutEntrance ==
  /\ (pc = "grow" /\ ~NotFull(i, size)) =>
       /\ DeadEndsOf(rooms) # <<>>
       /\ \A k \in 1..Len(DeadEndsOf(rooms)) :
            rooms[DeadEndsOf(rooms)[k]].key # <<0, 0>>
  /\ err # "IndexError"
  /\ pc \in {"assign", "done"} =>
       TypeNamed(KeyIndex(rooms, <<0, 0>>)) = "Entrance"

\* The assignment pass of Dungeon(0) has picked the stairs.
C18_Witness ==
  /\ pc = "assign"
  /\ size = 0
  /\ \E j \in DeadEndRooms : TypeNamed(j) = "Stairs"

\* C19: when generation ends no room at all, dead end or not, is further from
\* the entrance than the Stairs room.
C19_StairsFurthestOfAllRooms ==
  pc = "done" =>
    \E st \in 1..Len(rooms) :
      /\ TypeNamed(st) = "Stairs"
      /\ \A j \in 1..Len(rooms) :
           rooms[j].val.distanceFromEntrance
             <= rooms[st].val.distanceFromEntrance

\* A completed dungeon with a room that is neither the entrance nor a dead
\* end at distance 2 or more.
C19_Witness ==
  /\ pc = "done"
  /\ \E j \in 2..Len(rooms) :
       /\ rooms[j].val.neighborCount >= 2
       /\ rooms[j].val.distanceFromEntrance >= 2

\* The constructor under fair random choices: the straight-line code always
\* goes on, and the while loop, which draws base room and direction order
\* afresh in every iteration, does not avoid for ever a draw that adds a
\* room while such a draw exists.
SpecFair ==
  /\ Init
  /\ [][Next]_vars
  /\ WF_vars(SeedStep)
  /\ WF_vars(GrowthStep)
  /\ WF_vars(AssignStart)
  /\ WF_vars(AssignStep)
  /\ WF_vars(Finish)

\* Some room other than the entrance has a direction whose cell would be
\* accepted.
CanGrow ==
  \E base \in BaseChoices(rooms), d \in 0..3 :
    Accept(rooms, Candidate(rooms[base].val, d))

\* C17: whenever the while loop is running with i < size, some room other
\* than the entrance has a direction whose cell is free with exactly one
\* occupied neighbour; and under fair choices the constructor returns.
C17_GrowthNeverStarves ==
  /\ [](Growing => CanGrow)
  /\ <>(pc = "done")

\* The loop still has a room to add, and a room that cannot take one exists.
C17_Witness ==
  /\ Growing
  /\ Len(rooms) > 1 + baseRooms
  /\ \E base \in BaseChoices(rooms) : Blocked(rooms, base)

====
